---- MODULE Spec2Model ----
(***************************************************************************)
(* toml-describe: decide, from the compiler_checks section of Cargo.toml,  *)
(* the TARGET triple and the probed rustc version, which rustc-cfg flags   *)
(* the build script emits.                                                 *)
(*                                                                         *)
(*   src/src/manifest/compiler.rs  Condition, Constraint,                  *)
(*                                 parse_compiler_checks                   *)
(*   src/src/rustc.rs              VersionData, RUSTC (lazy static)        *)
(*   src/src/compiler.rs           check                                   *)
(***************************************************************************)
EXTENDS Integers, Sequences, FiniteSets, Bags, TLC

VARIABLES
    manifest,   \* what CARGO_MANIFEST_DIR/Cargo.toml holds (fixed for a behaviour)
    target,     \* the TARGET environment variable
    rustc_env,  \* what running `rustc --version --verbose` yields in this environment
    RUSTC,      \* the lazy static of rustc.rs: <<"uninit">>, <<"poisoned">>, <<"ready", VersionData>>
    pc,         \* position of check(): "start", "read", "parsed", "loop", "done", "failed"
    err,        \* the panic that ended the run, "" when none
    checks,     \* the flattened Vec<(String, Condition)> held by check()
    idx,        \* number of pairs of checks the for_each of check() has visited
    out,        \* the lines written to the writer, in order
    probes,     \* how many times this run ran the rustc command
    checked,    \* log of the Condition::check calls of this run
    run,        \* number of the current call of check()
    prev        \* <<>> or <<[pc, out]>>: how the previous call of check() ended

vars == <<manifest, target, rustc_env, RUSTC, pc, err, checks, idx, out, probes,
          checked, run, prev>>

----------------------------------------------------------------------------
(* Bounds of the model *)

\* largest number of top-level entries of compiler_checks
MaxEntries == 2

\* number of calls of check() followed in one behaviour
MaxRuns == 2

----------------------------------------------------------------------------
(* Generic helpers *)

None == <<>>

Some(x) == <<x>>

Range(s) == {s[i] : i \in 1..Len(s)}

\* all orders in which a mapping may yield the keys of S
Perms(S) == {p \in [1..Cardinality(S) -> S] : \A i, j \in 1..Cardinality(S) : i # j => p[i] # p[j]}

RECURSIVE SeqBag(_)
SeqBag(s) == IF s = <<>> THEN EmptyBag ELSE (s[1] :> 1) (+) SeqBag(Tail(s))

----------------------------------------------------------------------------
(* semver: Version, VersionReq *)

\* Version::new(major, minor, patch)
Version(major, minor, patch) == <<major, minor, patch>>

VersionLess(a, b) ==
    \/ a[1] < b[1]
    \/ a[1] = b[1] /\ a[2] < b[2]
    \/ a[1] = b[1] /\ a[2] = b[2] /\ a[3] < b[3]

Comparator(op, v) == [op |-> op, v |-> v]

\* Version::parse on the version texts the model uses
VersionParse(text) ==
    CASE text = "1.0.0" -> <<"Ok", Version(1, 0, 0)>>
      [] text = "1.0.9" -> <<"Ok", Version(1, 0, 9)>>
      [] text = "1.2.0" -> <<"Ok", Version(1, 2, 0)>>
      [] text = "2.0.0" -> <<"Ok", Version(2, 0, 0)>>
      [] OTHER -> <<"Err", "Invalid Rustc version">>

\* VersionReq::parse on the requirement texts the model uses; a bare version is a caret requirement
VersionReqParse(text) ==
    CASE text = "1.0.0" -> <<"Ok", <<Comparator("Caret", Version(1, 0, 0))>>>>
      [] text = "=1.2.0" -> <<"Ok", <<Comparator("Exact", Version(1, 2, 0))>>>>
      [] text = "~1.0.0" -> <<"Ok", <<Comparator("Tilde", Version(1, 0, 0))>>>>
      [] text = ">=1.2.0" -> <<"Ok", <<Comparator("GreaterEq", Version(1, 2, 0))>>>>
      [] text = "<1.2.0" -> <<"Ok", <<Comparator("Less", Version(1, 2, 0))>>>>
      [] text = ">1.0.0, <2.0.0" ->
            <<"Ok", <<Comparator("Greater", Version(1, 0, 0)), Comparator("Less", Version(2, 0, 0))>>>>
      [] OTHER -> <<"Err", "unexpected character in version requirement">>

\* one comparator against a version without pre-release tag
ComparatorMatches(c, ver) ==
    CASE c.op = "Exact" -> ver = c.v
      [] c.op = "Greater" -> VersionLess(c.v, ver)
      [] c.op = "GreaterEq" -> ver = c.v \/ VersionLess(c.v, ver)
      [] c.op = "Less" -> VersionLess(ver, c.v)
      [] c.op = "LessEq" -> ver = c.v \/ VersionLess(ver, c.v)
      [] c.op = "Tilde" -> ver[1] = c.v[1] /\ ver[2] = c.v[2] /\ ver[3] >= c.v[3]
      [] c.op = "Caret" ->
            /\ ver[1] = c.v[1]
            /\ IF c.v[1] > 0 THEN ~VersionLess(ver, c.v)
               ELSE IF c.v[2] > 0 THEN ver[2] = c.v[2] /\ ver[3] >= c.v[3]
               ELSE ver[2] = c.v[2] /\ ver[3] = c.v[3]

\* VersionReq::matches: every comparator matches
Matches(req, ver) == \A i \in 1..Len(req) : ComparatorMatches(req[i], ver)

----------------------------------------------------------------------------
(* rustc.rs *)

\* VersionData::new
VersionData(version, nightly) == [version |-> version, nightly |-> nightly]

\* stdout of `rustc --version --verbose`: lines of space-separated words; the second
\* word of the sixth line is the release, given here as its "-"-separated pieces
RustcOutput(release) ==
    << <<"rustc", release>>, <<"binary:", <<"rustc">>>>, <<"commit-hash:", <<"unknown">>>>,
       <<"commit-date:", <<"unknown">>>>, <<"host:", <<"x86_64", "unknown", "linux", "gnu">>>>,
       <<"release:", release>>, <<"LLVM", <<"version:">>>> >>

\* the environments a run may find: the command cannot be spawned, or it prints something
RustcEnvs ==
    { <<"spawn_error">>,
      <<"stdout", <<>>>>,
      <<"stdout", RustcOutput(<<"1.0.0">>)>>,
      <<"stdout", RustcOutput(<<"1.2.0">>)>>,
      <<"stdout", RustcOutput(<<"1.2.0", "nightly">>)>>,
      <<"stdout", RustcOutput(<<"1.0.9", "beta.1">>)>>,
      <<"stdout", RustcOutput(<<"nightly">>)>> }

\* the initializer of the lazy static RUSTC
RustcInit(env) ==
    IF env[1] = "spawn_error" THEN <<"Err", "Could not run rustc for version">>
    ELSE LET lines == env[2] IN
        IF Len(lines) < 6 THEN <<"Err", "Got unexpected rustc version output">>
        ELSE IF Len(lines[6]) < 2 THEN <<"Err", "Not in 'release: <version>' form">>
        ELSE LET pieces == lines[6][2]
                 version == VersionParse(pieces[1])
                 nightly == IF Len(pieces) >= 2 THEN pieces[2] = "nightly" ELSE FALSE
             IN IF version[1] = "Err" THEN <<"Err", "Invalid Rustc version">>
                ELSE <<"Ok", VersionData(version[2], nightly)>>

\* a dereference of the lazy static that never remembers the value
DerefNoCache(cell, env) ==
    LET r == RustcInit(env) IN
    IF r[1] = "Ok" THEN [cell |-> <<"uninit">>, val |-> Some(r[2]), probed |-> 1]
    ELSE [cell |-> <<"poisoned">>, val |-> None, probed |-> 1]

\* a dereference of the lazy static RUSTC: the initializer runs on the first one only;
\* an initializer that panicked leaves the cell poisoned and every later use panics
Deref(cell, env) ==
    CASE cell[1] = "ready" -> [cell |-> cell, val |-> Some(cell[2]), probed |-> 0]
      [] cell[1] = "poisoned" -> [cell |-> cell, val |-> None, probed |-> 0]
      [] cell[1] = "uninit" ->
            LET r == RustcInit(env) IN
            IF r[1] = "Ok" THEN [cell |-> <<"ready", r[2]>>, val |-> Some(r[2]), probed |-> 1]
            ELSE [cell |-> <<"poisoned">>, val |-> None, probed |-> 1]

----------------------------------------------------------------------------
(* cfg_expr: targets and expressions *)

\* the values of the TARGET environment variable: unset, or a triple
Targets ==
    { None, Some("x86_64-unknown-linux-gnu"), Some("x86_64-pc-windows-msvc"),
      Some("x86_65-unknown-freax-gna") }

get_builtin_target_by_triple(triple) ==
    CASE triple = "x86_64-unknown-linux-gnu" -> Some([os |-> "linux", family |-> "unix"])
      [] triple = "x86_64-pc-windows-msvc" -> Some([os |-> "windows", family |-> "windows"])
      [] OTHER -> None

LinuxKey == "cfg(target_os = \"linux\")"

WindowsKey == "cfg(target_os = \"windows\")"

NotWindowsKey == "cfg(not(windows))"

FeatureKey == "cfg(feature = \"std\")"

MalformedKey == "cfg(target_os = "

\* Expression::parse on the keys the model uses: a function over a list of predicates.
\* A bare identifier is a flag predicate, except the family names unix and windows.
ExpressionParse(k) ==
    CASE k = LinuxKey -> <<"Ok", [func |-> "id", preds |-> << <<"Target", "os", "linux">> >>]>>
      [] k = WindowsKey -> <<"Ok", [func |-> "id", preds |-> << <<"Target", "os", "windows">> >>]>>
      [] k = NotWindowsKey -> <<"Ok", [func |-> "not", preds |-> << <<"Target", "family", "windows">> >>]>>
      [] k = FeatureKey -> <<"Ok", [func |-> "id", preds |-> << <<"Feature", "", "std">> >>]>>
      [] k \in {"foo", "bar", "baz", "bad", "qux"} ->
            <<"Ok", [func |-> "id", preds |-> << <<"Flag", "", k>> >>]>>
      [] OTHER -> <<"Err", "Invalid cfg expression">>

\* TargetPredicate::matches
TargetPredicateMatches(tp, tinfo) ==
    CASE tp[2] = "os" -> tinfo.os = tp[3]
      [] tp[2] = "family" -> tinfo.family = tp[3]

\* Expression::eval: the closure is called on every predicate, then the function applied
ExpressionEval(expr, results) ==
    CASE expr.func = "id" -> results[1]
      [] expr.func = "not" -> ~results[1]
      [] expr.func = "any" -> \E i \in 1..Len(results) : results[i]
      [] expr.func = "all" -> \A i \in 1..Len(results) : results[i]

----------------------------------------------------------------------------
(* Cargo.toml as toml reads it: a value is a string or a table of values *)

Str(x) == <<"str", x>>

Tbl(f) == <<"tbl", f>>

EmptyTbl == Tbl(<<>>)

\* name = { version = v }
StableOnly(v) == Tbl("version" :> Str(v))

\* name = { nightly_version = n }
NightlyOnly(n) == Tbl("nightly_version" :> Str(n))

\* name = { version = v, nightly_version = n }
Both(v, n) == Tbl(("version" :> Str(v)) @@ ("nightly_version" :> Str(n)))

\* the entries compiler_checks is built from: <<key, value>>
EntryPool ==
    { <<"foo", StableOnly("1.0.0")>>,
      <<"foo", Tbl(("version" :> Str("=1.2.0")) @@ ("cfg" :> Str("can_do_stuff")))>>,
      <<"foo", EmptyTbl>>,
      <<"bar", Both(">=1.2.0", "1.0.0")>>,
      <<"baz", NightlyOnly(">=1.2.0")>>,
      <<"qux", StableOnly("not a version")>>,
      <<LinuxKey, Tbl(("bar" :> StableOnly("~1.0.0")) @@ ("foo" :> StableOnly(">1.0.0, <2.0.0")))>>,
      <<WindowsKey, Tbl("bad" :> StableOnly("1.0.0"))>>,
      <<NotWindowsKey, Tbl("foo" :> EmptyTbl)>>,
      <<FeatureKey, Tbl("bar" :> StableOnly("1.0.0"))>>,
      <<MalformedKey, Tbl("bar" :> Both("1.0.0", "<1.2.0"))>> }

\* a table holds each key once
Tables(maxEntries) ==
    { [k \in {e[1] : e \in S} |-> (CHOOSE e \in S : e[1] = k)[2]] :
        S \in {T \in SUBSET EntryPool :
                 /\ Cardinality(T) <= maxEntries
                 /\ \A a, b \in T : a[1] = b[1] => a = b} }

\* the files a run may find: none, one without the metadata section, one with it
ManifestTexts ==
    { <<"unreadable">>, <<"no_section">> } \cup { <<"section", t>> : t \in Tables(MaxEntries) }

----------------------------------------------------------------------------
(* manifest/compiler.rs: Condition, Constraint *)

\* Option<VersionReq> with #[serde(default)]: absent is None, a string is parsed,
\* anything else is an error
DeOptionVersionReq(t, field) ==
    IF field \notin DOMAIN t THEN <<"Ok", None>>
    ELSE IF t[field][1] # "str" THEN <<"Err", "invalid type">>
    ELSE LET r == VersionReqParse(t[field][2]) IN
         IF r[1] = "Ok" THEN <<"Ok", Some(r[2])>> ELSE r

\* Deserialize for Condition: a table; fields that are not declared are ignored
DeCondition(raw) ==
    IF raw[1] # "tbl" THEN <<"Err", "invalid type">>
    ELSE LET v == DeOptionVersionReq(raw[2], "version")
             n == DeOptionVersionReq(raw[2], "nightly_version")
         IN IF v[1] = "Err" THEN v
            ELSE IF n[1] = "Err" THEN n
            ELSE <<"Ok", [version |-> v[2], nightly_version |-> n[2]]>>

\* Deserialize for the untagged enum Constraint: the variants are tried in the order
\* they are declared, Cfg(HashMap<String, Condition>) then Condition(Condition)
DeConstraint(raw) ==
    IF raw[1] = "tbl" /\ \A k \in DOMAIN raw[2] : DeCondition(raw[2][k])[1] = "Ok"
    THEN <<"Ok", <<"Cfg", [k \in DOMAIN raw[2] |-> DeCondition(raw[2][k])[2]]>>>>
    ELSE IF DeCondition(raw)[1] = "Ok" THEN <<"Ok", <<"Condition", DeCondition(raw)[2]>>>>
    ELSE <<"Err", "data did not match any variant of untagged enum Constraint">>

\* toml::from_str::<Manifest>: the compiler_checks mapping, or an error
FromStr(text) ==
    IF text[1] # "section" THEN <<"Err", "missing field">>
    ELSE IF \E k \in DOMAIN text[2] : DeConstraint(text[2][k])[1] = "Err"
    THEN <<"Err", "data did not match any variant of untagged enum Constraint">>
    ELSE <<"Ok", [k \in DOMAIN text[2] |-> DeConstraint(text[2][k])[2]]>>

\* Condition::check
ConditionCheckStableFallback(c, rustc) ==
    IF rustc.nightly /\ c.nightly_version # None
    THEN Matches(c.nightly_version[1], rustc.version)
    ELSE c.version # None /\ Matches(c.version[1], rustc.version)

ConditionCheck(c, rustc) ==
    IF rustc.nightly
    THEN IF c.nightly_version # None THEN Matches(c.nightly_version[1], rustc.version) ELSE FALSE
    ELSE IF c.version # None THEN Matches(c.version[1], rustc.version) ELSE FALSE

----------------------------------------------------------------------------
(* manifest/compiler.rs: parse_compiler_checks *)

\* an unrecognized triple makes the group not apply instead of panicking
CfgAppliesUnknownTargetFalse(k, triple) ==
    LET cfg == ExpressionParse(k)
        tinfo == get_builtin_target_by_triple(triple)
    IN IF cfg[1] = "Err" THEN <<"Err", "Invalid cfg expression">>
       ELSE IF tinfo = None THEN <<"Ok", FALSE>>
       ELSE IF \E i \in 1..Len(cfg[2].preds) : cfg[2].preds[i][1] # "Target"
       THEN <<"Err", "Invalid CFG expression">>
       ELSE <<"Ok", ExpressionEval(cfg[2],
                [i \in 1..Len(cfg[2].preds) |-> TargetPredicateMatches(cfg[2].preds[i], tinfo[1])])>>

\* a key that does not parse makes the group not apply instead of panicking
CfgAppliesParseErrorFalse(k, triple) ==
    LET cfg == ExpressionParse(k)
        tinfo == get_builtin_target_by_triple(triple)
    IN IF cfg[1] = "Err" THEN <<"Ok", FALSE>>
       ELSE IF tinfo = None THEN <<"Err", "Invalid CFG expression">>
       ELSE IF \E i \in 1..Len(cfg[2].preds) : cfg[2].preds[i][1] # "Target"
       THEN <<"Err", "Invalid CFG expression">>
       ELSE <<"Ok", ExpressionEval(cfg[2],
                [i \in 1..Len(cfg[2].preds) |-> TargetPredicateMatches(cfg[2].preds[i], tinfo[1])])>>

\* the value of res for the group with key k: the key is parsed, the triple looked up,
\* and the expression evaluated with a closure that accepts target predicates only
CfgApplies(k, triple) ==
    LET cfg == ExpressionParse(k)
        tinfo == get_builtin_target_by_triple(triple)
    IN IF cfg[1] = "Err" THEN <<"Err", "Invalid cfg expression">>
       ELSE IF tinfo = None THEN <<"Err", "Invalid CFG expression">>
       ELSE IF \E i \in 1..Len(cfg[2].preds) : cfg[2].preds[i][1] # "Target"
       THEN <<"Err", "Invalid CFG expression">>
       ELSE <<"Ok", ExpressionEval(cfg[2],
                [i \in 1..Len(cfg[2].preds) |-> TargetPredicateMatches(cfg[2].preds[i], tinfo[1])])>>

\* the members are pushed whatever res is
GroupPairsAlways(res, c, mo) == [i \in 1..Len(mo) |-> <<mo[i], c[mo[i]]>>]

\* what a group adds to ret: its members, in the order mo the mapping yields them, when res holds
GroupPairs(res, c, mo) == IF res THEN [i \in 1..Len(mo) |-> <<mo[i], c[mo[i]]>>] ELSE <<>>

\* the for_each over compiler_checks from the i-th key of ord on, ret being what was pushed so far
RECURSIVE ForEachEntry(_, _, _, _, _, _)
ForEachEntry(compiler_checks, triple, ord, mord, i, ret) ==
    IF i > Len(ord) THEN <<"Ok", ret>>
    ELSE LET k == ord[i]
             v == compiler_checks[k]
         IN IF v[1] = "Condition"
            THEN ForEachEntry(compiler_checks, triple, ord, mord, i + 1, Append(ret, <<k, v[2]>>))
            ELSE LET res == CfgApplies(k, triple) IN
                 IF res[1] = "Err" THEN res
                 ELSE ForEachEntry(compiler_checks, triple, ord, mord, i + 1,
                                   ret \o GroupPairs(res[2], v[2], mord[k]))

\* the for_each ends at the first group that does not apply
RECURSIVE ForEachEntryBreak(_, _, _, _, _, _)
ForEachEntryBreak(compiler_checks, triple, ord, mord, i, ret) ==
    IF i > Len(ord) THEN <<"Ok", ret>>
    ELSE LET k == ord[i]
             v == compiler_checks[k]
         IN IF v[1] = "Condition"
            THEN ForEachEntryBreak(compiler_checks, triple, ord, mord, i + 1, Append(ret, <<k, v[2]>>))
            ELSE LET res == CfgApplies(k, triple) IN
                 IF res[1] = "Err" THEN res
                 ELSE IF ~res[2] THEN <<"Ok", ret>>
                 ELSE ForEachEntryBreak(compiler_checks, triple, ord, mord, i + 1,
                                        ret \o GroupPairs(res[2], v[2], mord[k]))

parse_compiler_checks_break(compiler_checks, env_target, ord, mord) ==
    IF env_target = None THEN <<"Err", "TARGET environment variable is unset">>
    ELSE ForEachEntryBreak(compiler_checks, env_target[1], ord, mord, 1, <<>>)

\* parse_compiler_checks, the mapping yielding its keys in the order ord and each
\* group its members in the order mord[k]
parse_compiler_checks(compiler_checks, env_target, ord, mord) ==
    IF env_target = None THEN <<"Err", "TARGET environment variable is unset">>
    ELSE ForEachEntry(compiler_checks, env_target[1], ord, mord, 1, <<>>)

\* the keys of the groups of a mapping
CfgKeys(compiler_checks) == {k \in DOMAIN compiler_checks : compiler_checks[k][1] = "Cfg"}

\* the orders in which the member mappings of the groups may yield their keys
MemberOrders(compiler_checks) ==
    {mord \in [CfgKeys(compiler_checks) ->
                 UNION {Perms(DOMAIN compiler_checks[k][2]) : k \in CfgKeys(compiler_checks)}] :
        \A k \in CfgKeys(compiler_checks) : mord[k] \in Perms(DOMAIN compiler_checks[k][2])}

\* manifest::parse: the text is deserialized, then flattened
parse(text, env_target, ord, mord) ==
    LET mani == FromStr(text) IN
    IF mani[1] = "Err" THEN mani
    ELSE parse_compiler_checks(mani[2], env_target, ord, mord)

----------------------------------------------------------------------------
(* compiler.rs: check *)

RerunLine == <<"cargo:rerun-if-changed", "Cargo.toml">>

CfgLine(name) == <<"cargo:rustc-cfg", name>>

\* a name already written is not written again
WriteCfgOnce(w, name) == IF CfgLine(name) \in Range(w) THEN w ELSE Append(w, CfgLine(name))

\* line 19: writeln!(writer, "cargo:rustc-cfg={}", name)
WriteCfg(w, name) == Append(w, CfgLine(name))

Init ==
    /\ manifest \in ManifestTexts
    /\ target \in Targets
    /\ rustc_env \in RustcEnvs
    /\ RUSTC = <<"uninit">>
    /\ pc = "start"
    /\ err = ""
    /\ checks = <<>>
    /\ idx = 0
    /\ out = <<>>
    /\ probes = 0
    /\ checked = <<>>
    /\ run = 1
    /\ prev = None

\* lines 10-13: Cargo.toml is read and parsed; any failure is a panic
ReadAndParse ==
    /\ pc = "start"
    /\ IF manifest[1] = "unreadable"
       THEN /\ pc' = "failed"
            /\ err' = "Could not read Cargo.toml"
            /\ UNCHANGED checks
       ELSE LET mani == FromStr(manifest) IN
            IF mani[1] = "Err"
            THEN /\ pc' = "failed"
                 /\ err' = mani[2]
                 /\ UNCHANGED checks
            ELSE \E ord \in Perms(DOMAIN mani[2]) : \E mord \in MemberOrders(mani[2]) :
                    LET r == parse(manifest, target, ord, mord) IN
                    IF r[1] = "Err"
                    THEN /\ pc' = "failed"
                         /\ err' = r[2]
                         /\ UNCHANGED checks
                    ELSE /\ pc' = "parsed"
                         /\ checks' = r[2]
                         /\ UNCHANGED err
    /\ UNCHANGED <<manifest, target, rustc_env, RUSTC, idx, out, probes, checked, run, prev>>

\* line 15
WriteRerun ==
    /\ pc = "parsed"
    /\ out' = Append(out, RerunLine)
    /\ pc' = "loop"
    /\ UNCHANGED <<manifest, target, rustc_env, RUSTC, err, checks, idx, probes, checked, run, prev>>

\* lines 17-21, one pair: RUSTC is dereferenced, the condition checked, the name written
\* when it holds
CheckPair ==
    /\ pc = "loop"
    /\ idx < Len(checks)
    /\ LET d == Deref(RUSTC, rustc_env)
           name == checks[idx + 1][1]
           condition == checks[idx + 1][2]
       IN /\ RUSTC' = d.cell
          /\ probes' = probes + d.probed
          /\ IF d.val = None
             THEN /\ pc' = "failed"
                  /\ err' = "rustc"
                  /\ UNCHANGED <<idx, out, checked>>
             ELSE /\ out' = IF ConditionCheck(condition, d.val[1])
                            THEN WriteCfg(out, name) ELSE out
                  /\ checked' = Append(checked, [name |-> name, condition |-> condition,
                                                 rustc |-> d.val[1],
                                                 result |-> ConditionCheck(condition, d.val[1])])
                  /\ idx' = idx + 1
                  /\ UNCHANGED <<pc, err>>
    /\ UNCHANGED <<manifest, target, rustc_env, checks, run, prev>>

\* line 22: every pair was visited
Return ==
    /\ pc = "loop"
    /\ idx = Len(checks)
    /\ pc' = "done"
    /\ UNCHANGED <<manifest, target, rustc_env, RUSTC, err, checks, idx, out, probes, checked, run, prev>>

\* check() is called again in the same process, with a fresh writer
CallAgain ==
    /\ pc \in {"done", "failed"}
    /\ run < MaxRuns
    /\ prev' = Some([pc |-> pc, out |-> out])
    /\ run' = run + 1
    /\ pc' = "start"
    /\ err' = ""
    /\ checks' = <<>>
    /\ idx' = 0
    /\ out' = <<>>
    /\ probes' = 0
    /\ checked' = <<>>
    /\ UNCHANGED <<manifest, target, rustc_env, RUSTC>>

\* the build script is run again: a new process, whose lazy static is not initialized
RunAgain ==
    /\ pc \in {"done", "failed"}
    /\ run < MaxRuns
    /\ prev' = Some([pc |-> pc, out |-> out])
    /\ run' = run + 1
    /\ RUSTC' = <<"uninit">>
    /\ pc' = "start"
    /\ err' = ""
    /\ checks' = <<>>
    /\ idx' = 0
    /\ out' = <<>>
    /\ probes' = 0
    /\ checked' = <<>>
    /\ UNCHANGED <<manifest, target, rustc_env>>

Next ==
    \/ ReadAndParse
    \/ WriteRerun
    \/ CheckPair
    \/ Return
    \/ CallAgain
    \/ RunAgain

Spec == Init /\ [][Next]_vars

----------------------------------------------------------------------------
(* Condition::check on every Condition a single entry can declare *)

ReqTexts == {"1.0.0", "=1.2.0", "~1.0.0", ">=1.2.0", "<1.2.0", ">1.0.0, <2.0.0"}

ReleaseTexts == {"1.0.0", "1.0.9", "1.2.0", "2.0.0"}

\* the tables with the fields version and nightly_version present or absent, alone or
\* beside a field Condition does not declare
ConditionTables ==
    LET fields(v, n) == (IF v = None THEN <<>> ELSE "version" :> Str(v[1]))
                        @@ (IF n = None THEN <<>> ELSE "nightly_version" :> Str(n[1]))
        opts == {None} \cup {Some(t) : t \in ReqTexts}
    IN {Tbl(fields(v, n)) : v \in opts, n \in opts}
       \cup {Tbl(fields(v, n) @@ ("cfg" :> Str("can_do_stuff"))) : v \in opts, n \in opts}

InitCondition ==
    /\ manifest \in {<<"section", "foo" :> t>> : t \in ConditionTables}
    /\ target = Some("x86_64-unknown-linux-gnu")
    /\ rustc_env \in {<<"stdout", RustcOutput(<<r>>)>> : r \in ReleaseTexts}
                     \cup {<<"stdout", RustcOutput(<<r, "nightly">>)>> : r \in ReleaseTexts}
    /\ RUSTC = <<"uninit">>
    /\ pc = "start"
    /\ err = ""
    /\ checks = <<>>
    /\ idx = 0
    /\ out = <<>>
    /\ probes = 0
    /\ checked = <<>>
    /\ run = 1
    /\ prev = None

SpecCondition == InitCondition /\ [][Next]_vars

----------------------------------------------------------------------------
(* What the claims speak of *)

HasSection == manifest[1] = "section"

\* the top-level keys that Constraint deserialization classifies as a group
GroupKeys ==
    IF HasSection
    THEN {k \in DOMAIN manifest[2] :
            DeConstraint(manifest[2][k])[1] = "Ok" /\ DeConstraint(manifest[2][k])[2][1] = "Cfg"}
    ELSE {}

\* the top-level keys that Constraint deserialization classifies as a single Condition
DirectKeys ==
    IF HasSection
    THEN {k \in DOMAIN manifest[2] :
            DeConstraint(manifest[2][k])[1] = "Ok" /\ DeConstraint(manifest[2][k])[2][1] = "Condition"}
    ELSE {}

Deserializes == HasSection /\ FromStr(manifest)[1] = "Ok"

TargetRecognized == target # None /\ get_builtin_target_by_triple(target[1]) # None

\* parse returned a list: check() is at or past line 15
ParseReturned == pc \in {"parsed", "loop", "done"} \/ (pc = "failed" /\ out # <<>>)

\* the predicate of group k is well formed and evaluates to b for the target
PredicateIs(k, b) ==
    /\ ExpressionParse(k)[1] = "Ok"
    /\ \A i \in 1..Len(ExpressionParse(k)[2].preds) : ExpressionParse(k)[2].preds[i][1] = "Target"
    /\ b = ExpressionEval(ExpressionParse(k)[2],
             [i \in 1..Len(ExpressionParse(k)[2].preds) |->
                TargetPredicateMatches(ExpressionParse(k)[2].preds[i],
                                       get_builtin_target_by_triple(target[1])[1])])

\* the pairs the claim C3 expects, as a bag
RECURSIVE BagOfPairs(_)
BagOfPairs(P) ==
    IF P = {} THEN EmptyBag
    ELSE LET x == CHOOSE y \in P : TRUE IN (<<x[2], x[3]>> :> 1) (+) BagOfPairs(P \ {x})

ExpectedPairs ==
    LET cc == FromStr(manifest)[2] IN
    BagOfPairs({<<k, k, cc[k][2]>> : k \in DirectKeys}
               \cup UNION {{<<k, m, cc[k][2][m]>> : m \in DOMAIN cc[k][2]} :
                             k \in {g \in GroupKeys : PredicateIs(g, TRUE)}})

CheckedPairs == [i \in 1..Len(checked) |-> <<checked[i].name, checked[i].condition>>]

\* the capability names written, in order
EmittedNames == [i \in 1..(Len(out) - 1) |-> out[i + 1][2]]

RECURSIVE Satisfied(_, _)
Satisfied(pairs, rustc) ==
    IF pairs = <<>> THEN <<>>
    ELSE (IF (IF rustc.nightly
              THEN pairs[1][2].nightly_version # None
                   /\ Matches(pairs[1][2].nightly_version[1], rustc.version)
              ELSE pairs[1][2].version # None
                   /\ Matches(pairs[1][2].version[1], rustc.version))
          THEN <<pairs[1][1]>> ELSE <<>>) \o Satisfied(Tail(pairs), rustc)

----------------------------------------------------------------------------
(* The claims *)

\* C1: every call of Condition::check answers: on a nightly toolchain, whether
\* nightly_version is present and matches the toolchain's version; otherwise whether
\* version is present and matches it. A Condition with only version set is never
\* satisfied on nightly, and nightly_version is never consulted on stable.
C1_ConditionCheck ==
    \A i \in 1..Len(checked) :
        LET c == checked[i].condition
            d == checked[i].rustc
        IN /\ d.nightly => (checked[i].result <=>
                              (c.nightly_version # None /\ Matches(c.nightly_version[1], d.version)))
           /\ ~d.nightly => (checked[i].result <=>
                              (c.version # None /\ Matches(c.version[1], d.version)))
           /\ (d.nightly /\ c.nightly_version = None) => ~checked[i].result
           /\ (~d.nightly /\ c.version = None) => ~checked[i].result

\* a stable-only Condition whose requirement the version number meets was checked on
\* nightly and refused
C1_Witness ==
    \E i \in 1..Len(checked) :
        /\ checked[i].rustc.nightly
        /\ checked[i].condition.nightly_version = None
        /\ checked[i].condition.version # None
        /\ Matches(checked[i].condition.version[1], checked[i].rustc.version)
        /\ ~checked[i].result

\* C2 (as claimed): a top-level entry whose table sets neither version nor
\* nightly_version, alone in the section, is flattened without a fatal error for every
\* target into the one pair (name, Condition{None, None}), which is never enabled.
C2_EmptyConditionIsDirect ==
    (/\ HasSection
     /\ target # None
     /\ pc # "start"
     /\ \E k \in DOMAIN manifest[2] : DOMAIN manifest[2] = {k} /\ manifest[2][k] = EmptyTbl)
    => /\ ParseReturned
       /\ \E k \in DOMAIN manifest[2] :
            checks = << <<k, [version |-> None, nightly_version |-> None]>> >>
       /\ Len(out) <= 1

\* C3: when parse_compiler_checks returns for a recognized target, the list holds exactly
\* one pair per single-Condition entry and the members of every group whose predicate
\* is true; a group whose predicate is false adds nothing, raises no error, and only
\* pairs of the list are ever checked against the toolchain.
C3_FlattenedPairs ==
    (Deserializes /\ TargetRecognized) =>
        /\ ParseReturned => SeqBag(checks) = ExpectedPairs
        /\ ParseReturned => SeqBag(CheckedPairs) \sqsubseteq ExpectedPairs
        /\ (pc # "start" /\ \A k \in GroupKeys : PredicateIs(k, TRUE) \/ PredicateIs(k, FALSE))
              => ParseReturned

\* a run that finished with a group that applies and one that does not
C3_Witness ==
    /\ Deserializes /\ TargetRecognized
    /\ pc = "done"
    /\ \E k \in GroupKeys : PredicateIs(k, FALSE) /\ DOMAIN FromStr(manifest)[2][k][2] # {}
    /\ \E k \in GroupKeys : PredicateIs(k, TRUE) /\ Cardinality(DOMAIN FromStr(manifest)[2][k][2]) = 2
    /\ Len(checks) = 2
    /\ Len(checked) = 2

\* C4: with a group in the manifest and a target triple that is not a known platform,
\* the evaluation ends in a panic before any list is returned or anything is written.
C4_UnknownTargetFatal ==
    (/\ HasSection
     /\ GroupKeys # {}
     /\ target # None /\ get_builtin_target_by_triple(target[1]) = None
     /\ pc # "start")
    => pc = "failed" /\ checks = <<>> /\ out = <<>> /\ checked = <<>>

\* the panic, for a manifest with a well-formed group and a single Condition beside it
C4_Witness ==
    /\ Deserializes
    /\ target # None /\ get_builtin_target_by_triple(target[1]) = None
    /\ \E k \in GroupKeys : ExpressionParse(k)[1] = "Ok" /\ k \in {LinuxKey, WindowsKey}
    /\ DirectKeys # {}
    /\ pc = "failed"
    /\ err = "Invalid CFG expression"

\* C5: with a group whose key is not a predicate expression, the evaluation ends in a
\* panic for every target and toolchain: no list is returned and nothing is written.
C5_MalformedPredicateFatal ==
    (/\ HasSection
     /\ \E k \in GroupKeys : ExpressionParse(k)[1] = "Err"
     /\ pc # "start")
    => pc = "failed" /\ checks = <<>> /\ out = <<>> /\ checked = <<>>

\* the panic, beside a single Condition the toolchain would satisfy on a known target
C5_Witness ==
    /\ Deserializes /\ TargetRecognized
    /\ \E k \in GroupKeys : ExpressionParse(k)[1] = "Err"
    /\ \E k \in DirectKeys :
         /\ RustcInit(rustc_env)[1] = "Ok"
         /\ ConditionCheck(FromStr(manifest)[2][k][2], RustcInit(rustc_env)[2])
    /\ pc = "failed"
    /\ err = "Invalid cfg expression"

C7_SameOrderedOutput ==
    (prev # None /\ pc \in {"done", "failed"}) => (pc = prev[1].pc /\ out = prev[1].out)

\* C7 (amended): a second evaluation of the same inputs ends as the first did and
\* writes the same lines the same number of times; their order may differ.
C7_SameOutputBag ==
    (prev # None /\ pc \in {"done", "failed"}) =>
        (pc = prev[1].pc /\ SeqBag(out) = SeqBag(prev[1].out))

\* two finished evaluations of the same inputs whose names come in different orders
C7_Witness ==
    /\ prev # None
    /\ pc = "done" /\ prev[1].pc = "done"
    /\ out # prev[1].out
    /\ SeqBag(out) = SeqBag(prev[1].out)

\* C8 (as claimed): a satisfied Condition declared with an override name is written
\* under the override name; without one the name written is the capability name.
C8_OverrideNameEmitted ==
    (pc = "done" /\ Deserializes) =>
        \A k \in DirectKeys :
            LET raw == manifest[2][k][2]
                sat == RUSTC[1] = "ready" /\ ConditionCheck(FromStr(manifest)[2][k][2], RUSTC[2])
            IN sat => IF "cfg" \in DOMAIN raw
                      THEN CfgLine(raw["cfg"][2]) \in Range(out)
                      ELSE CfgLine(k) \in Range(out)

\* C9 (as claimed): a run that ends in a fatal error has written nothing.
C9_AllOrNothing == pc = "failed" => out = <<>>

====
